---- MODULE Spec2Model ----
(***************************************************************************)
(* near-agent/elizaos-plugin-multichain: the derived-address provider and  *)
(* the transfer action, in the two builds the repository holds:            *)
(*   "src"  - src/src/index.ts (providers/wallet.ts, utils/multichain.ts)  *)
(*            and src/unnamed/part_001 (actions/transfer.ts): BTC only;    *)
(*   "dist" - src/unnamed/part_000 (the bundled index.js): BTC and EVM.    *)
(* Every await of the code is a step boundary: the external call is issued *)
(* by one action and its outcome (drawn from the outcomes the primitive    *)
(* can produce) is consumed by the next.                                   *)
(* SpecProvider runs the address provider, SpecHandler the transfer        *)
(* action, SpecConfig the config resolution over the settings, SpecAmount  *)
(* the conversion of amounts to base units.                                *)
(***************************************************************************)
EXTENDS Integers, Sequences, FiniteSets, TLC

VARIABLES build, settings, now, prov, calls, ret, okHist,
          hPc, hIn, hContent, hCalls, hChain, hReq, hResp, hErr, hCb, hRet,
          cfg, conv

pvars == <<now, prov, calls, ret, okHist>>
hvars == <<hPc, hIn, hContent, hCalls, hChain, hReq, hResp, hErr, hCb, hRet>>
uvars == <<cfg, conv>>
vars == <<build, settings, now, prov, calls, ret, okHist,
          hPc, hIn, hContent, hCalls, hChain, hReq, hResp, hErr, hCb, hRet,
          cfg, conv>>

----------------------------------------------------------------------------
(* Bounds of the model. *)

\* get calls that may be in flight at once
MaxCalls == 2
\* clock ticks of half a TTL each
MaxTicks == 3

----------------------------------------------------------------------------
(* JavaScript values: a record tagged with the value's type. *)

Undefined == [t |-> "undefined"]
Null == [t |-> "null"]
Thrown == [t |-> "thrown"]
Str(s) == [t |-> "string", v |-> s]
Num(s) == [t |-> "number", v |-> s]

\* ToBoolean, as `if (x)` and `!x` apply it
Truthy(x) ==
    CASE x.t \in {"undefined", "null"} -> FALSE
      [] x.t = "string" -> x.v # ""
      [] x.t = "number" -> x.v \notin {"0", "NaN"}
      [] OTHER -> TRUE

\* a ?? b
Nullish(x, d) == IF x.t \in {"undefined", "null"} THEN d ELSE x

\* a || b
OrElse(x, d) == IF Truthy(x) THEN x ELSE d

\* typeof x
TypeOf(x) == IF x.t = "null" THEN "object" ELSE x.t

\* new Error(message): the message is kept as the parts of its template string
Error(parts) == [t |-> "error", name |-> "Error", message |-> parts]

\* `${error}`: Error.prototype.toString
ErrorToString(e) == <<e.name, ": ">> \o e.message

----------------------------------------------------------------------------
(* Settings lookup: runtime.getSetting(key). *)

Accounts == {"alice.near", "bob.near"}

SettingKeys ==
    {"NEAR_ADDRESS", "NEAR_WALLET_SECRET_KEY", "NEAR_NETWORK",
     "BTC_PROVIDER_URL", "EVM_PROVIDER_URL", "BTC_NETWORK"}

NoSettings == [k \in SettingKeys |-> Undefined]

getSetting(k) == settings[k]

----------------------------------------------------------------------------
(* Config resolver. *)

CHAIN_SIGNATURES_CONFIG(n) ==
    CASE n = Str("mainnet") ->
           [nearNetworkId |-> Str("mainnet"), contract |-> Str("v1.signer")]
      [] n = Str("testnet") ->
           [nearNetworkId |-> Str("testnet"), contract |-> Str("v1.signer-prod.testnet")]
      [] OTHER -> << >>

CHAIN_SIGNATURES_DERIVATION_PATHS ==
    [BTC |-> "bitcoin-1", EVM |-> "evm-1"]

MEMPOOL_API_URL ==
    [mainnet |-> Str("https://mempool.space/api"),
     testnet |-> Str("https://mempool.space/testnet4/api")]

getDerivationPath(chainType) == CHAIN_SIGNATURES_DERIVATION_PATHS[chainType]

getBitcoinConfig ==
    LET nearNetworkId == Nullish(getSetting("NEAR_NETWORK"), Str("testnet"))
        providerUrl == Nullish(getSetting("BTC_PROVIDER_URL"),
                               IF nearNetworkId = Str("mainnet")
                               THEN MEMPOOL_API_URL.mainnet
                               ELSE MEMPOOL_API_URL.testnet)
        network == Nullish(getSetting("BTC_NETWORK"), Str("testnet"))
    IN  [network |-> network, providerUrl |-> providerUrl]
          @@ CHAIN_SIGNATURES_CONFIG(nearNetworkId)

\* getEvmConfig without the fallback of the provider URL
getEvmConfig_noDefault ==
    LET nearNetworkId == Nullish(getSetting("NEAR_NETWORK"), Str("testnet"))
    IN  [providerUrl |-> getSetting("EVM_PROVIDER_URL")]
          @@ CHAIN_SIGNATURES_CONFIG(nearNetworkId)

getEvmConfig ==
    LET nearNetworkId == Nullish(getSetting("NEAR_NETWORK"), Str("testnet"))
        providerUrl == Nullish(getSetting("EVM_PROVIDER_URL"), Str("https://sepolia.drpc.org"))
    IN  [providerUrl |-> providerUrl] @@ CHAIN_SIGNATURES_CONFIG(nearNetworkId)

BITCOIN_CONFIGS(n) ==
    CASE n = Str("mainnet") ->
           [nearNetworkId |-> Str("mainnet"), network |-> Str("mainnet"),
            providerUrl |-> Str("https://mempool.space/api"),
            contract |-> Str("v1.signer")]
      [] n = Str("testnet") ->
           [nearNetworkId |-> Str("testnet"), network |-> Str("testnet"),
            providerUrl |-> Str("https://mempool.space/testnet4/api"),
            contract |-> Str("v1.signer-prod.testnet")]
      [] OTHER -> << >>

----------------------------------------------------------------------------
(* The external derivation primitive.  It resolves with the address (and,  *)
(* for BTC, the public key) of the account on the path, or fails: it       *)
(* rejects ("throw"), or what it received cannot be read as an address     *)
(* record ("malformed"), and then the destructuring of its result throws.  *)

DeriveOutcomes == {"ok", "throw", "malformed"}

deriveAddressAndPublicKey(accountId, path) ==
    [address |-> Str(path \o "/" \o accountId),
     publicKey |-> Str("pub/" \o path \o "/" \o accountId)]

----------------------------------------------------------------------------
(* The address cache: new NodeCache({ stdTTL: 300 }).  An entry is kept    *)
(* with its expiry time; get deletes and misses an entry whose expiry time *)
(* has passed; set replaces the entry of the key.                          *)

TTL == 300

HalfTTL == TTL \div 2

EmptyCache == << >>

\* a cache that keeps an entry half a TTL too long
CacheLive_late(cache, key) == key \in DOMAIN cache /\ now <= cache[key].t + HalfTTL

\* a cache whose entries never expire
CacheLive_noExpiry(cache, key) == key \in DOMAIN cache

CacheLive(cache, key) == key \in DOMAIN cache /\ now <= cache[key].t

CacheGet(cache, key) == IF CacheLive(cache, key) THEN cache[key].v ELSE Undefined

CacheAfterGet(cache, key) ==
    IF key \in DOMAIN cache /\ ~CacheLive(cache, key)
    THEN [k \in DOMAIN cache \ {key} |-> cache[k]]
    ELSE cache

CacheSet(cache, key, value) ==
    [k \in DOMAIN cache \cup {key} |->
        IF k = key THEN [v |-> value, t |-> now + TTL] ELSE cache[k]]

\* how long ago the entry under key was set
CacheAge(cache, key) == now - (cache[key].t - TTL)

----------------------------------------------------------------------------
(* The address provider.  prov is a DerivedAddressProvider instance that   *)
(* lives on between calls (instances share nothing, so one stands for      *)
(* all); walletProvider.get makes an instance of its own on every call.    *)
(* A get call in flight is a record: where it stands (pc), the instance it *)
(* runs on (target: "prov", or "own" with the instance's cache in the      *)
(* record), the derivation calls it issued (nDerive), whether the account  *)
(* or a derivation was missing or failed (failed).  When a call returns,   *)
(* its record, with the result, becomes ret and its slot is free again; a  *)
(* starting call takes the lowest free slot.  okHist[target] is the last   *)
(* address a get on that entry point obtained and cached, with the time; a *)
(* call notes at its start whether that was less than a TTL ago (fresh)    *)
(* and, if so, what it was (prevAddr), or more than a TTL ago (stale).  A  *)
(* call that returns an entry of the cache notes the entry's age (hitAge). *)

Builds == {"src", "dist"}

Targets == {"own", "prov"}

Calls == 1 .. MaxCalls

IdleCall ==
    [pc |-> "idle", target |-> "own", acct |-> "", cache |-> EmptyCache, nDerive |-> 0,
     failed |-> FALSE, result |-> Undefined, btc |-> Undefined,
     fresh |-> FALSE, prevAddr |-> Undefined, stale |-> FALSE, hitAge |-> -1]

NoHist == [set |-> FALSE, addr |-> Undefined, cachedAt |-> 0]

Fresh(target) == okHist[target].set /\ now - okHist[target].cachedAt < TTL

Stale(target) == okHist[target].set /\ now - okHist[target].cachedAt > TTL

FreeSlot(c) ==
    /\ calls[c].pc = "idle"
    /\ \A d \in Calls : d < c => calls[d].pc # "idle"

CacheKey(accountId) ==
    IF build = "src"
    THEN "derived-address-bitcoin-" \o accountId
    ELSE "derived-addresses-" \o accountId

\* getDerivedAddress without its try/catch: the exception leaves get
getDerivedAddress_rethrow(call) == [call EXCEPT !.pc = "done", !.result = Thrown]

\* catch (error) { ...; return null; } of getDerivedAddress
getDerivedAddress_catch(call) == [call EXCEPT !.pc = "done", !.result = Null]

\* catch (error) { ...; return null; } of walletProvider.get
walletProvider_catch(call) == [call EXCEPT !.pc = "done", !.result = Null]

\* getDerivedAddress up to its first await: the cache lookup, and on a miss
\* the BTC derivation call is issued
getDerivedAddress(call, cache) ==
    LET cachedValue == CacheGet(cache, CacheKey(call.acct))
    IN  IF Truthy(cachedValue)
        THEN [call EXCEPT !.pc = "done", !.result = cachedValue,
                          !.hitAge = CacheAge(cache, CacheKey(call.acct))]
        ELSE [call EXCEPT !.pc = "awaitBtc", !.nDerive = @ + 1]

\* the call of slot c goes on as call: it has returned, or it awaits
Continue(c, call) ==
    IF call.pc = "done"
    THEN /\ ret' = call
         /\ calls' = [calls EXCEPT ![c] = IdleCall]
    ELSE /\ calls' = [calls EXCEPT ![c] = call]
         /\ UNCHANGED ret

\* constructor(accountId)
DerivedAddressProvider(accountId) == [accountId |-> accountId, cache |-> EmptyCache]

\* a call as it starts on an entry point
StartCall(target, accountId) ==
    [IdleCall EXCEPT !.target = target, !.acct = accountId, !.fresh = Fresh(target),
                     !.stale = Stale(target),
                     !.prevAddr = IF Fresh(target) THEN okHist[target].addr ELSE Undefined]

\* DerivedAddressProvider.get(runtime, message, state) on the instance prov
DerivedAddressProvider_get(c) ==
    /\ FreeSlot(c)
    /\ LET call == StartCall("prov", prov.accountId)
       IN  /\ Continue(c, getDerivedAddress(call, prov.cache))
           /\ prov' = [prov EXCEPT !.cache = CacheAfterGet(@, CacheKey(call.acct))]
    /\ UNCHANGED <<build, settings, now, okHist>>
    /\ UNCHANGED <<hvars, uvars>>

\* walletProvider.get(runtime, message, state)
walletProvider_get(c) ==
    /\ FreeSlot(c)
    /\ LET accountId == getSetting("NEAR_ADDRESS")
       IN  IF ~Truthy(accountId)
           THEN Continue(c, walletProvider_catch([StartCall("own", "") EXCEPT !.failed = TRUE]))
           ELSE LET provider == DerivedAddressProvider(accountId.v)
                IN  Continue(c, getDerivedAddress(
                                  [StartCall("own", provider.accountId)
                                     EXCEPT !.cache = provider.cache],
                                  provider.cache))
    /\ UNCHANGED <<build, settings, now, prov, okHist>>
    /\ UNCHANGED <<hvars, uvars>>

\* this.cache.set(cacheKey, value); return value;  (after the return the
\* instance walletProvider.get made is out of reach, and its cache with it)
StoreAndReturn(c, value) ==
    LET call == calls[c]
        key == CacheKey(call.acct)
    IN  /\ Continue(c, [call EXCEPT !.pc = "done", !.result = value])
        /\ prov' = IF call.target = "own"
                   THEN prov
                   ELSE [prov EXCEPT !.cache = CacheSet(@, key, value)]
        /\ okHist' = [okHist EXCEPT ![call.target] =
                        [set |-> TRUE, addr |-> value, cachedAt |-> now]]

\* a provider that caches the null it returns when a derivation call throws
FailAndReturn_cacheNull(c) ==
    /\ Continue(c, getDerivedAddress_catch([calls[c] EXCEPT !.failed = TRUE]))
    /\ prov' = IF calls[c].target = "own"
               THEN prov
               ELSE [prov EXCEPT !.cache = CacheSet(@, CacheKey(calls[c].acct), Null)]
    /\ UNCHANGED okHist

\* a provider that returns what it has derived so far when a derivation
\* call throws
FailAndReturn_partial(c) ==
    /\ Continue(c, [calls[c] EXCEPT !.pc = "done", !.failed = TRUE,
                       !.result = IF calls[c].btc = Undefined
                                  THEN Null
                                  ELSE [t |-> "object", btc |-> calls[c].btc,
                                        evm |-> Undefined]])
    /\ UNCHANGED <<prov, okHist>>

\* a derivation call of a get throws: control passes to the catch block,
\* this.cache.set is not reached
FailAndReturn(c) ==
    /\ Continue(c, getDerivedAddress_catch([calls[c] EXCEPT !.failed = TRUE]))
    /\ UNCHANGED <<prov, okHist>>

\* a two-chain build that caches the BTC address as soon as it has it
AwaitEvm_cacheBtc(c, btcAddress) ==
    /\ Continue(c, [calls[c] EXCEPT !.pc = "awaitEvm", !.btc = btcAddress,
                                    !.nDerive = @ + 1])
    /\ prov' = IF calls[c].target = "own"
               THEN prov
               ELSE [prov EXCEPT !.cache =
                        CacheSet(@, CacheKey(calls[c].acct),
                                 [t |-> "object", btc |-> btcAddress, evm |-> Undefined])]
    /\ UNCHANGED okHist

\* the two-chain build after the BTC derivation: btcAddress is a local
\* variable, the EVM derivation call is issued
AwaitEvm(c, btcAddress) ==
    /\ Continue(c, [calls[c] EXCEPT !.pc = "awaitEvm", !.btc = btcAddress,
                                    !.nDerive = @ + 1])
    /\ UNCHANGED <<prov, okHist>>

\* the BTC derivation call of a get returns
BtcDerived(c, outcome) ==
    /\ calls[c].pc = "awaitBtc"
    /\ LET call == calls[c]
           address == deriveAddressAndPublicKey(call.acct, getDerivationPath("BTC")).address
       IN  IF outcome # "ok"
           THEN FailAndReturn(c)
           ELSE IF build = "src"
           THEN StoreAndReturn(c, address)
           ELSE AwaitEvm(c, address)
    /\ UNCHANGED <<build, settings, now>>
    /\ UNCHANGED <<hvars, uvars>>

\* the EVM derivation call of a get returns (the two-chain build)
EvmDerived(c, outcome) ==
    /\ calls[c].pc = "awaitEvm"
    /\ LET call == calls[c]
           address == deriveAddressAndPublicKey(call.acct, getDerivationPath("EVM")).address
       IN  IF outcome # "ok"
           THEN FailAndReturn(c)
           ELSE StoreAndReturn(c, [t |-> "object", btc |-> call.btc, evm |-> address])
    /\ UNCHANGED <<build, settings, now>>
    /\ UNCHANGED <<hvars, uvars>>

\* time passes
Tick ==
    /\ now < MaxTicks * HalfTTL
    /\ now' = now + HalfTTL
    /\ UNCHANGED <<build, settings, prov, calls, ret, okHist>>
    /\ UNCHANGED <<hvars, uvars>>

----------------------------------------------------------------------------
(* Numbers.  A natural number of any size is the sequence of its decimal   *)
(* digits, least significant first, without leading zeros (0 is << >>).    *)
(* A decimal is m / 10^k: [m |-> natural, k |-> fraction digits].  A JS     *)
(* number (an IEEE 754 double, here positive or zero) is q * 2^e with      *)
(* 2^52 <= q < 2^53, or q = 0: [q |-> natural, e |-> exponent].            *)

\* TLC evaluates the argument of an operator only where the operator uses
\* it; a value is evaluated before it is passed into a recursion
Evaluated(v) == v = v

Zero == << >>

One == <<1>>

Digit(a, i) == IF i >= 1 /\ i <= Len(a) THEN a[i] ELSE 0

\* a without its leading zeros
Trim(a) ==
    SubSeq(a, 1, CHOOSE n \in 0 .. Len(a) :
                    /\ n = 0 \/ a[n] # 0
                    /\ \A j \in n + 1 .. Len(a) : a[j] = 0)

Dbl(a) ==
    Trim([i \in 1 .. Len(a) + 1 |->
            (2 * Digit(a, i) + (IF Digit(a, i - 1) >= 5 THEN 1 ELSE 0)) % 10])

Half(a) ==
    Trim([i \in 1 .. Len(a) |-> (Digit(a, i) + 10 * (Digit(a, i + 1) % 2)) \div 2])

IsOdd(a) == Digit(a, 1) % 2 = 1

Less(a, b) ==
    \/ Len(a) < Len(b)
    \/ /\ Len(a) = Len(b)
       /\ \E i \in 1 .. Len(a) :
            a[i] < b[i] /\ \A j \in i + 1 .. Len(a) : a[j] = b[j]

Leq(a, b) == a = b \/ Less(a, b)

\* the carry into digit i of a + b
Carry(a, b, i) ==
    IF \E j \in 1 .. i - 1 :
          /\ Digit(a, j) + Digit(b, j) >= 10
          /\ \A k \in j + 1 .. i - 1 : Digit(a, k) + Digit(b, k) = 9
    THEN 1 ELSE 0

Add(a, b) ==
    LET n == IF Len(a) > Len(b) THEN Len(a) + 1 ELSE Len(b) + 1
    IN  Trim([i \in 1 .. n |-> (Digit(a, i) + Digit(b, i) + Carry(a, b, i)) % 10])

\* the borrow from digit i of a - b
Borrow(a, b, i) ==
    IF \E j \in 1 .. i - 1 :
          /\ Digit(a, j) < Digit(b, j)
          /\ \A k \in j + 1 .. i - 1 : Digit(a, k) = Digit(b, k)
    THEN 1 ELSE 0

\* a - b, for a >= b
Sub(a, b) ==
    Trim([i \in 1 .. Len(a) |-> (a[i] - Digit(b, i) - Borrow(a, b, i) + 10) % 10])

\* a * 10^k
Shift(a, k) == IF a = Zero THEN Zero ELSE [i \in 1 .. k |-> 0] \o a

\* floor(a / 10^k)
Unshift(a, k) == IF Len(a) <= k THEN Zero ELSE SubSeq(a, k + 1, Len(a))

Times5(a) == Half(Shift(a, 1))

\* a * 2^n
RECURSIVE DblN(_, _)
DblN(a, n) ==
    IF n = 0 THEN a
    ELSE IF n = 1 THEN Dbl(a)
    ELSE LET h == DblN(a, n \div 2)
         IN  IF Evaluated(h) THEN DblN(h, n - n \div 2) ELSE h

\* a * 5^n
RECURSIVE Times5N(_, _)
Times5N(a, n) ==
    IF n = 0 THEN a
    ELSE IF n = 1 THEN Times5(a)
    ELSE LET h == Times5N(a, n \div 2)
         IN  IF Evaluated(h) THEN Times5N(h, n - n \div 2) ELSE h

Pow2_52 == DblN(One, 52)

Pow2_53 == DblN(One, 53)

\* the least amount Number.prototype.toFixed renders with an exponent
Pow10_21 == Shift(One, 21)

\* the steps in which a binary exponent is searched, largest first
ScaleSteps == <<64, 32, 16, 8, 4, 2, 1>>

\* a is doubled as long as it stays at or below n: afterwards n < 2 * a
RECURSIVE ScaleUp(_, _)
ScaleUp(s, i) ==
    IF i > Len(ScaleSteps) THEN s
    ELSE LET a2 == DblN(s.a, ScaleSteps[i])
             s2 == IF Leq(a2, s.n)
                   THEN [s EXCEPT !.a = a2, !.e = @ + ScaleSteps[i]]
                   ELSE s
         IN  IF Evaluated(s2) THEN ScaleUp(s2, i + 1) ELSE s

\* n is doubled as long as it stays below a, and once more if it is below a
RECURSIVE ScaleDown(_, _)
ScaleDown(s, i) ==
    IF i > Len(ScaleSteps)
    THEN IF Less(s.n, s.a) THEN [s EXCEPT !.n = Dbl(@), !.e = @ - 1] ELSE s
    ELSE LET n2 == DblN(s.n, ScaleSteps[i])
             s2 == IF Less(n2, s.a)
                   THEN [s EXCEPT !.n = n2, !.e = @ - ScaleSteps[i]]
                   ELSE s
         IN  IF Evaluated(s2) THEN ScaleDown(s2, i + 1) ELSE s

\* n / (a / 2^52) brought into [2^52, 2^53) by doubling n or a
Scale(n, a) ==
    LET s == [n |-> n, a |-> a, e |-> 0]
    IN  IF Less(n, a) THEN ScaleDown(s, 1) ELSE ScaleUp(s, 1)

\* one bit of the quotient n / d, where t = d * 2^bit
DivBit(s) ==
    LET bit == Leq(s.t, s.n)
    IN  [n |-> IF bit THEN Sub(s.n, s.t) ELSE s.n,
         q |-> IF bit THEN Add(Dbl(s.q), One) ELSE Dbl(s.q),
         t |-> Half(s.t), d |-> s.t]

\* the quotient bits from bit i down to bit j
RECURSIVE DivBits(_, _, _)
DivBits(s, i, j) ==
    IF i = j THEN DivBit(s)
    ELSE LET mid == (i + j) \div 2
             h == DivBits(s, i, mid + 1)
         IN  IF Evaluated(h) THEN DivBits(h, mid, j) ELSE h

\* the double nearest to n / d (round to nearest, ties to even)
RoundToDouble(n, d) ==
    IF n = Zero THEN [q |-> Zero, e |-> 0]
    ELSE LET s == Scale(n, DblN(d, 52))
             b == DivBits([n |-> s.n, q |-> Zero, t |-> s.a, d |-> s.a], 52, 0)
             twice == Dbl(b.n)
             up == Less(b.d, twice) \/ (twice = b.d /\ IsOdd(b.q))
             q == IF up THEN Add(b.q, One) ELSE b.q
         IN  IF q = Pow2_53 THEN [q |-> Pow2_52, e |-> s.e + 1]
             ELSE [q |-> q, e |-> s.e]

\* a decimal without trailing fraction zeros
NormDec(x) ==
    IF x.m = Zero THEN [m |-> Zero, k |-> 0]
    ELSE LET z == CHOOSE j \in 0 .. x.k :
                     /\ \A i \in 1 .. j : Digit(x.m, i) = 0
                     /\ j = x.k \/ Digit(x.m, j + 1) # 0
         IN  [m |-> Unshift(x.m, z), k |-> x.k - z]

\* q * 2^e as a decimal, exactly
Exact(q, e) ==
    IF e >= 0 THEN [m |-> DblN(q, e), k |-> 0]
    ELSE [m |-> Times5N(q, -e), k |-> -e]

\* a rounded to its nd leading digits: downwards, and upwards
RoundDown(a, nd) == Shift(Unshift(a, Len(a) - nd), Len(a) - nd)

RoundUp(a, nd) == Shift(Add(Unshift(a, Len(a) - nd), One), Len(a) - nd)

Dist(a, b) == IF Less(a, b) THEN Sub(b, a) ELSE Sub(a, b)

\* Number::toString: the decimal with the fewest digits that reads back as
\* the double x, the one nearest to x if there are several
RECURSIVE Shortest(_, _, _, _, _)
Shortest(lo, x, hi, closed, nd) ==
    IF Len(x) <= nd THEN x
    ELSE LET dn == RoundDown(x, nd)
             up == RoundUp(x, nd)
             In(c) == IF closed THEN Leq(lo, c) /\ Leq(c, hi)
                      ELSE Less(lo, c) /\ Less(c, hi)
         IN  IF In(dn) /\ In(up)
             THEN IF Less(Dist(up, x), Dist(x, dn)) THEN up ELSE dn
             ELSE IF In(dn) THEN dn
             ELSE IF In(up) THEN up
             ELSE Shortest(lo, x, hi, closed, nd + 1)

NumberToString(x) ==
    IF x.q = Zero THEN [m |-> Zero, k |-> 0]
    ELSE LET q4 == DblN(x.q, 2)
             lo == IF x.q = Pow2_52 THEN Sub(q4, One) ELSE Sub(q4, <<2>>)
             hi == Add(q4, <<2>>)
             k == IF x.e - 2 >= 0 THEN 0 ELSE 2 - x.e
         IN  NormDec([m |-> Shortest(Exact(lo, x.e - 2).m, Exact(q4, x.e - 2).m,
                                     Exact(hi, x.e - 2).m, ~IsOdd(x.q), 1),
                      k |-> k])

\* Number(string), for the decimal the string writes
Number(dec) == RoundToDouble(dec.m, Shift(One, dec.k))

\* BigNumber(n) for a number n: the decimal String(n) writes
BigNumber(n) == NumberToString(n)

\* BigNumber.prototype.shiftedBy
shiftedBy(x, decimals) ==
    IF x.k >= decimals THEN NormDec([m |-> x.m, k |-> x.k - decimals])
    ELSE [m |-> Shift(x.m, decimals - x.k), k |-> 0]

\* BigNumber.prototype.toNumber
toNumber(x) == RoundToDouble(x.m, Shift(One, x.k))

\* Number.prototype.toFixed(): for x >= 10^21 what String(x) gives, in
\* exponent notation; else the integer nearest to x, the larger of two
toFixed(x) ==
    LET v == Exact(x.q, x.e)
    IN  IF v.k = 0 /\ Leq(Pow10_21, v.m)
        THEN LET s == NumberToString(x)
                 dropped == CHOOSE j \in 0 .. Len(s.m) :
                               /\ \A i \in 1 .. j : s.m[i] = 0
                               /\ j < Len(s.m) /\ s.m[j + 1] # 0
             IN  [notation |-> "exponent", digits |-> Unshift(s.m, dropped),
                  exponent |-> Len(s.m) - 1]
        ELSE LET floor == Unshift(v.m, v.k)
                 half == v.k > 0 /\ v.m[v.k] >= 5
             IN  [notation |-> "fixed", digits |-> IF half THEN Add(floor, One) ELSE floor,
                  exponent |-> 0]

\* parseAmount(n, decimals): BigNumber(n).shiftedBy(decimals)
parseAmount(n, decimals) == shiftedBy(BigNumber(n), decimals)

\* parseBTC(n): parseAmount(n, 8).toNumber()
parseBTC(n) == toNumber(parseAmount(n, 8))

\* parseETH(n): parseAmount(n, 18).toNumber()
parseETH(n) == toNumber(parseAmount(n, 18))

\* value: parseBTC(Number(amount)).toFixed() of transferBTC, and
\* value: parseETH(Number(amount)).toFixed() of transferEth
TransactionValue(symbol, amount) ==
    IF symbol = "BTC" THEN toFixed(parseBTC(Number(amount)))
    ELSE toFixed(parseETH(Number(amount)))

\* the decimal written with the digits ds, most significant first, the last
\* k of them after the point
Dec(ds, k) == [m |-> Trim([i \in 1 .. Len(ds) |-> ds[Len(ds) + 1 - i]]), k |-> k]

\* the amount strings the generative call of the handler draws, as decimals
AmountTexts == {"0.001", "1.5"}

Decimal(text) ==
    CASE text = "0.001" -> Dec(<<0, 0, 0, 1>>, 3)
      [] text = "1.5" -> Dec(<<1, 5>>, 1)

\* the value a transfer sends for each of them (computed once)
SentValue ==
    [text \in AmountTexts |->
        [BTC |-> TransactionValue("BTC", Decimal(text)),
         ETH |-> TransactionValue("ETH", Decimal(text))]]

\* the conversion on its own: an amount, and the value computed for it
NoConversion ==
    [pc |-> "idle", symbol |-> "", amount |-> Dec(<< >>, 0), value |-> Undefined]

\* the symbols a build transfers
TransferSymbols == IF build = "src" THEN {"BTC"} ELSE {"BTC", "ETH"}

\* the fraction digits of a symbol's base unit
DECIMALS == [BTC |-> 8, ETH |-> 18]

\* the digits of the amounts converted
AmountDigits ==
    {<<1>>, <<1, 5>>, <<1, 0, 0, 0>>, <<2, 1, 0, 0, 0, 0, 0, 0>>,
     <<1, 2, 3, 4, 5, 6, 7, 8, 9>>,
     <<1, 0, 0, 0, 0, 0, 0, 0, 0, 0, 0, 0, 0, 0, 0, 0, 0, 0, 1>>}

\* an amount of each symbol for all digits and every number of fraction
\* digits the symbol's base unit has
ConversionInputs ==
    UNION {{[NoConversion EXCEPT !.pc = "input", !.symbol = symbol,
                                 !.amount = Dec(ds, k)] :
               ds \in AmountDigits, k \in 0 .. DECIMALS[symbol]} :
           symbol \in TransferSymbols}

\* the transaction value is computed for the amount
Convert ==
    /\ conv.pc = "input"
    /\ conv' = [conv EXCEPT !.pc = "done",
                            !.value = TransactionValue(conv.symbol, conv.amount)]
    /\ UNCHANGED <<build, settings, cfg>>
    /\ UNCHANGED <<pvars, hvars>>

----------------------------------------------------------------------------
(* The transfer action: executeTransfer.handler (dist) and                 *)
(* executeBtcTransfer.handler (src).  One invocation at a time; hCalls     *)
(* counts the calls it made, hCb lists the arguments of its callback calls *)
(* in order, hRet is how it ended: "true", "false", or "raised" when an    *)
(* exception left it.  The callback is a HandlerCallback, an async         *)
(* function, called and not awaited: what becomes of its promise does not  *)
(* reach the handler.                                                      *)

Recipients == {Str("tb1q"), Null}

Amounts == {Str("0.001"), Num("1.5"), Null}

Symbols == {Str("BTC"), Str("ETH"), Str("DOGE"), Undefined}

\* what generateObject may resolve with: the build's object, fields of any type, or null
Contents ==
    {Null} \cup
    [t : {"object"}, recipient : Recipients, amount : Amounts,
     symbol : IF build = "dist" THEN Symbols ELSE {Undefined}]

TxHashes == {"tx-1", "tx-2"}

ErrorMessages == {"insufficient funds"}

\* what the sign-and-send primitive may resolve with
SignResponses ==
    [success : {TRUE}, transactionHash : TxHashes] \cup
    [success : {FALSE}, errorMessage : ErrorMessages]

NoCalls == [compose |-> 0, generate |-> 0, dispatch |-> 0, derive |-> 0, sign |-> 0]

\* KeyPair.fromString(secretKey) throws on a string that is no key pair
KeyPairParses(secretKey) == secretKey = Str("ed25519:good")

\* TransferSchema of the dist build
TransferSchema(content) ==
    /\ TypeOf(content.recipient) = "string"
    /\ TypeOf(content.amount) \in {"string", "number"}
    /\ content.symbol \in {Str("BTC"), Str("ETH")}

\* BtcTransferSchema of the src build
BtcTransferSchema(content) ==
    /\ TypeOf(content.recipient) = "string"
    /\ TypeOf(content.amount) \in {"string", "number"}

\* isTransferContent of the dist build
isTransferContent(content) ==
    /\ TypeOf(content.recipient) = "string"
    /\ TypeOf(content.amount) \in {"string", "number"}
    /\ TypeOf(content.symbol) = "string"

\* isTransferContent of the src build
isTransferContent_src(content) ==
    /\ TypeOf(content.recipient) = "string"
    /\ TypeOf(content.amount) \in {"string", "number"}

\* the symbol as the handler's texts print it
SymbolText(content) == IF build = "dist" THEN content.symbol.v ELSE "BTC"

\* the invalid-content branch: one callback, return false
handler_invalid ==
    [cb |-> IF hIn.hasCallback
            THEN Append(hCb, [text |-> <<"Unable to process transfer request. Invalid content provided.">>,
                              content |-> [error |-> Str("Invalid transfer content")]])
            ELSE hCb,
     ret |-> "false"]

\* handler_success reporting the amount it passed on, amount.toString()
handler_success_amountString(content, txHash) ==
    [cb |-> IF hIn.hasCallback
            THEN Append(hCb, [text |-> <<"Successfully transferred ", content.amount.v, " ",
                                         SymbolText(content), " to ", content.recipient.v,
                                         "\nTransaction: ", txHash>>,
                              content |-> [success |-> TRUE, signature |-> txHash,
                                           amount |-> Str(content.amount.v),
                                           recipient |-> content.recipient]])
            ELSE hCb,
     ret |-> "true"]

\* after the transfer returned txHash: one callback, return true
handler_success(content, txHash) ==
    [cb |-> IF hIn.hasCallback
            THEN Append(hCb, [text |-> <<"Successfully transferred ", content.amount.v, " ",
                                         SymbolText(content), " to ", content.recipient.v,
                                         "\nTransaction: ", txHash>>,
                              content |-> [success |-> TRUE, signature |-> txHash,
                                           amount |-> content.amount,
                                           recipient |-> content.recipient]])
            ELSE hCb,
     ret |-> "true"]

\* handler_catch that only logs
handler_catch_silent(content, error) == [cb |-> hCb, ret |-> "false"]

\* catch (error): one callback, return false
handler_catch(content, error) ==
    [cb |-> IF hIn.hasCallback
            THEN Append(hCb, [text |-> <<"Error transferring ", SymbolText(content), ": ">>
                                         \o ErrorToString(error),
                              content |-> [error |-> error]])
            ELSE hCb,
     ret |-> "false"]

\* transferBTC (dist) up to its first await: the credentials, then the derivation call
transferBTC ==
    IF ~Truthy(getSetting("NEAR_ADDRESS")) \/ ~Truthy(getSetting("NEAR_WALLET_SECRET_KEY"))
    THEN [thrown |-> TRUE, error |-> Error(<<"NEAR wallet credentials not configured">>)]
    ELSE [thrown |-> FALSE, chain |-> "BTC"]

\* a transferEth that goes the way of transferBTC
transferEth_viaBitcoin ==
    IF ~Truthy(getSetting("NEAR_ADDRESS")) \/ ~Truthy(getSetting("NEAR_WALLET_SECRET_KEY"))
    THEN [thrown |-> TRUE, error |-> Error(<<"NEAR wallet credentials not configured">>)]
    ELSE [thrown |-> FALSE, chain |-> "BTC"]

\* transferEth up to its first await
transferEth ==
    IF ~Truthy(getSetting("NEAR_ADDRESS")) \/ ~Truthy(getSetting("NEAR_WALLET_SECRET_KEY"))
    THEN [thrown |-> TRUE, error |-> Error(<<"NEAR wallet credentials not configured">>)]
    ELSE [thrown |-> FALSE, chain |-> "EVM"]

\* transferBTC (src) without the check of the credentials
transferBTC_src_unchecked == [thrown |-> FALSE, chain |-> "BTC"]

\* transferBTC (src) up to its first await
transferBTC_src ==
    IF ~Truthy(getSetting("NEAR_ADDRESS")) \/ ~Truthy(getSetting("NEAR_WALLET_SECRET_KEY"))
    THEN [thrown |-> TRUE, error |-> Error(<<"BTC wallet credentials not configured">>)]
    ELSE [thrown |-> FALSE, chain |-> "BTC"]

\* transfer whose default branch sends BTC
transfer_defaultBTC(symbol) ==
    CASE symbol = "ETH" -> transferEth
      [] OTHER -> transferBTC

\* transfer(runtime, symbol, recipient, amount): the switch on the symbol
transfer(symbol) ==
    CASE symbol = "BTC" -> transferBTC
      [] symbol = "ETH" -> transferEth
      [] OTHER -> [thrown |-> TRUE,
                   error |-> Error(<<"Unsupported symbol to transfer: ", symbol>>)]

\* the dispatcher the handler of the build calls
Dispatch(content) == IF build = "dist" THEN transfer(content.symbol.v) ELSE transferBTC_src

\* the chain config a transfer resolves
TransferConfig(chain) ==
    IF build = "src"
    THEN BITCOIN_CONFIGS(OrElse(getSetting("NEAR_NETWORK"), Str("testnet")))
    ELSE IF chain = "BTC" THEN getBitcoinConfig ELSE getEvmConfig

\* the argument of signAndSendBTCTransaction / signAndSendEVMTransaction
SignRequest(chain, content) ==
    LET accountId == getSetting("NEAR_ADDRESS")
        config == TransferConfig(chain)
        derivationPath == IF build = "src" THEN "bitcoin-1" ELSE getDerivationPath(chain)
        derived == deriveAddressAndPublicKey(accountId.v, derivationPath)
    IN  IF chain = "BTC"
        THEN [fn |-> "signAndSendBTCTransaction",
              transaction |-> [to |-> content.recipient,
                               value |-> SentValue[content.amount.v].BTC,
                               from |-> derived.address,
                               publicKey |-> derived.publicKey],
              chainConfig |-> [network |-> config.network,
                               providerUrl |-> config.providerUrl,
                               contract |-> config.contract],
              nearAuthentication |-> [accountId |-> accountId,
                                      networkId |-> config.nearNetworkId],
              derivationPath |-> derivationPath]
        ELSE [fn |-> "signAndSendEVMTransaction",
              transaction |-> [to |-> content.recipient,
                               value |-> SentValue[content.amount.v].ETH,
                               from |-> derived.address],
              chainConfig |-> [providerUrl |-> config.providerUrl,
                               contract |-> config.contract],
              nearAuthentication |-> [accountId |-> accountId,
                                      networkId |-> config.nearNetworkId],
              derivationPath |-> derivationPath]

\* TransferResult that does not look at response.success
TransferResult_unchecked(chain, response) ==
    [thrown |-> FALSE,
     value |-> IF response.success THEN response.transactionHash ELSE "undefined"]

\* TransferResult whose error leaves out the remote message
TransferResult_noMessage(chain, response) ==
    IF response.success
    THEN [thrown |-> FALSE, value |-> response.transactionHash]
    ELSE [thrown |-> TRUE, error |-> Error(<<"Transfer failed">>)]

\* if (response.success) return response.transactionHash; else throw new Error(...)
TransferResult(chain, response) ==
    IF response.success
    THEN [thrown |-> FALSE, value |-> response.transactionHash]
    ELSE [thrown |-> TRUE,
          error |-> Error(<<IF chain = "BTC" THEN "Transfer BTC failed with error: "
                                             ELSE "Transfer ETH failed with error: ",
                            response.errorMessage>>)]

\* the handler ends: with what it returns, or with the exception that leaves it
End(r) ==
    /\ hPc' = "done"
    /\ hCb' = r.cb
    /\ hRet' = r.ret

Raise ==
    /\ hPc' = "done"
    /\ hRet' = "raised"
    /\ UNCHANGED hCb

\* handler(runtime, message, state, _options, callback): up to the first await,
\* composeState(message) or updateRecentMessageState(state)
handler(hasState, hasCallback) ==
    /\ hPc \in {"idle", "done"}
    /\ hPc' = "compose"
    /\ hIn' = [hasState |-> hasState, hasCallback |-> hasCallback]
    /\ hCalls' = [NoCalls EXCEPT !.compose = 1]
    /\ hContent' = Undefined
    /\ hChain' = ""
    /\ hReq' = Undefined
    /\ hResp' = Undefined
    /\ hErr' = Undefined
    /\ hCb' = << >>
    /\ hRet' = "pending"
    /\ UNCHANGED <<build, settings>>
    /\ UNCHANGED <<pvars, uvars>>

\* the state composition returns; composeContext, then generateObject is called
Composed(outcome) ==
    /\ hPc = "compose"
    /\ IF outcome = "ok"
       THEN /\ hPc' = "generate"
            /\ hCalls' = [hCalls EXCEPT !.generate = @ + 1]
            /\ UNCHANGED <<hCb, hRet>>
       ELSE /\ Raise
            /\ UNCHANGED hCalls
    /\ UNCHANGED <<build, settings, hIn, hContent, hChain, hReq, hResp, hErr>>
    /\ UNCHANGED <<pvars, uvars>>

\* generateObject rejects
GenerateFailed ==
    /\ hPc = "generate"
    /\ Raise
    /\ UNCHANGED <<build, settings, hIn, hContent, hCalls, hChain, hReq, hResp, hErr>>
    /\ UNCHANGED <<pvars, uvars>>

\* generateObject resolves with content: the manual check, then the dispatcher
\* up to its derivation call
Generated(content) ==
    /\ hPc = "generate"
    /\ hContent' = content
    /\ IF content = Null
       THEN /\ Raise
            /\ UNCHANGED <<hCalls, hChain, hErr>>
       ELSE IF ~(IF build = "dist" THEN isTransferContent(content)
                                   ELSE isTransferContent_src(content))
       THEN /\ End(handler_invalid)
            /\ UNCHANGED <<hCalls, hChain, hErr>>
       ELSE LET d == Dispatch(content)
            IN  IF d.thrown
                THEN /\ End(handler_catch(content, d.error))
                     /\ hErr' = d.error
                     /\ hCalls' = [hCalls EXCEPT !.dispatch = @ + 1]
                     /\ UNCHANGED hChain
                ELSE /\ hPc' = "derive"
                     /\ hChain' = d.chain
                     /\ hCalls' = [hCalls EXCEPT !.dispatch = @ + 1, !.derive = @ + 1]
                     /\ UNCHANGED <<hCb, hRet, hErr>>
    /\ UNCHANGED <<build, settings, hIn, hReq, hResp>>
    /\ UNCHANGED <<pvars, uvars>>

\* a transfer that calls the derivation a second time when it fails
Derived_retry(outcome) ==
    /\ hPc = "derive"
    /\ IF outcome = "ok" /\ KeyPairParses(getSetting("NEAR_WALLET_SECRET_KEY"))
       THEN /\ hPc' = "sign"
            /\ hReq' = SignRequest(hChain, hContent)
            /\ hCalls' = [hCalls EXCEPT !.sign = @ + 1]
            /\ UNCHANGED <<hCb, hRet, hErr>>
       ELSE IF hCalls.derive < 2
       THEN /\ hCalls' = [hCalls EXCEPT !.derive = @ + 1]
            /\ UNCHANGED <<hPc, hReq, hCb, hRet, hErr>>
       ELSE /\ End(handler_catch(hContent, Error(<<"derivation failed">>)))
            /\ hErr' = Error(<<"derivation failed">>)
            /\ UNCHANGED <<hReq, hCalls>>
    /\ UNCHANGED <<build, settings, hIn, hContent, hChain, hResp>>
    /\ UNCHANGED <<pvars, uvars>>

\* the derivation call of the transfer returns; KeyPair.fromString, then the
\* sign-and-send call
Derived(outcome) ==
    /\ hPc = "derive"
    /\ LET error == CASE outcome = "throw" -> Error(<<"derivation failed">>)
                      [] outcome = "malformed" ->
                           [t |-> "error", name |-> "TypeError",
                            message |-> <<"Cannot destructure property 'address'">>]
                      [] OTHER -> Error(<<"bad secret key">>)
       IN  IF outcome = "ok" /\ KeyPairParses(getSetting("NEAR_WALLET_SECRET_KEY"))
           THEN /\ hPc' = "sign"
                /\ hReq' = SignRequest(hChain, hContent)
                /\ hCalls' = [hCalls EXCEPT !.sign = @ + 1]
                /\ UNCHANGED <<hCb, hRet, hErr>>
           ELSE /\ End(handler_catch(hContent, error))
                /\ hErr' = error
                /\ UNCHANGED <<hReq, hCalls>>
    /\ UNCHANGED <<build, settings, hIn, hContent, hChain, hResp>>
    /\ UNCHANGED <<pvars, uvars>>

\* the sign-and-send call resolves with response
Signed(response) ==
    /\ hPc = "sign"
    /\ hResp' = response
    /\ LET r == TransferResult(hChain, response)
       IN  IF r.thrown
           THEN /\ End(handler_catch(hContent, r.error))
                /\ hErr' = r.error
           ELSE /\ End(handler_success(hContent, r.value))
                /\ UNCHANGED hErr
    /\ UNCHANGED <<build, settings, hIn, hContent, hCalls, hChain, hReq>>
    /\ UNCHANGED <<pvars, uvars>>

\* the sign-and-send call rejects
SignFailed ==
    /\ hPc = "sign"
    /\ hResp' = Thrown
    /\ End(handler_catch(hContent, Error(<<"sign-and-send failed">>)))
    /\ hErr' = Error(<<"sign-and-send failed">>)
    /\ UNCHANGED <<build, settings, hIn, hContent, hCalls, hChain, hReq>>
    /\ UNCHANGED <<pvars, uvars>>

----------------------------------------------------------------------------
(* Config resolution on its own: cfg is the config last resolved, for the  *)
(* chain kind noted with it.                                               *)

NoConfig == [pc |-> "idle", chain |-> "", config |-> Undefined]

\* the Bitcoin config is resolved: getBitcoinConfig(runtime) in the
\* two-chain build, BITCOIN_CONFIGS[networkId] in the single-chain build
ResolveBitcoinConfig ==
    /\ cfg.pc = "idle"
    /\ cfg' = [pc |-> "done", chain |-> "BTC", config |-> TransferConfig("BTC")]
    /\ UNCHANGED <<build, settings, conv>>
    /\ UNCHANGED <<pvars, hvars>>

\* the EVM config is resolved: getEvmConfig(runtime), two-chain build
ResolveEvmConfig ==
    /\ cfg.pc = "idle"
    /\ build = "dist"
    /\ cfg' = [pc |-> "done", chain |-> "EVM", config |-> TransferConfig("EVM")]
    /\ UNCHANGED <<build, settings, conv>>
    /\ UNCHANGED <<pvars, hvars>>

----------------------------------------------------------------------------
(* Specifications. *)

ProviderStart ==
    /\ now = 0
    /\ prov \in {DerivedAddressProvider(a) : a \in Accounts}
    /\ calls = [c \in Calls |-> IdleCall]
    /\ ret = IdleCall
    /\ okHist = [g \in Targets |-> NoHist]

HandlerStart ==
    /\ hPc = "idle"
    /\ hIn = [hasState |-> FALSE, hasCallback |-> FALSE]
    /\ hContent = Undefined
    /\ hCalls = NoCalls
    /\ hChain = ""
    /\ hReq = Undefined
    /\ hResp = Undefined
    /\ hErr = Undefined
    /\ hCb = << >>
    /\ hRet = "pending"

UtilStart ==
    /\ cfg = NoConfig
    /\ conv = NoConversion

\* the settings the provider reads
InitProvider ==
    /\ build \in Builds
    /\ settings \in {[NoSettings EXCEPT !["NEAR_ADDRESS"] = a, !["NEAR_NETWORK"] = n] :
                       a \in {Undefined, Str("alice.near")},
                       n \in {Undefined}}
    /\ ProviderStart
    /\ HandlerStart
    /\ UtilStart

NextProvider ==
    \/ \E c \in Calls : DerivedAddressProvider_get(c)
    \/ \E c \in Calls : walletProvider_get(c)
    \/ \E c \in Calls, o \in DeriveOutcomes : BtcDerived(c, o)
    \/ \E c \in Calls, o \in DeriveOutcomes : EvmDerived(c, o)
    \/ Tick

SpecProvider == InitProvider /\ [][NextProvider]_vars

\* the settings the transfer reads
InitHandler ==
    /\ build \in Builds
    /\ settings \in {[NoSettings EXCEPT !["NEAR_ADDRESS"] = a,
                                        !["NEAR_WALLET_SECRET_KEY"] = k,
                                        !["NEAR_NETWORK"] = n] :
                       a \in {Undefined, Str(""), Str("alice.near")},
                       k \in {Undefined, Str("bad-key"), Str("ed25519:good")},
                       n \in {Undefined, Str("mainnet"), Str("testnet")}}
    /\ ProviderStart
    /\ HandlerStart
    /\ UtilStart

NextHandler ==
    \/ \E s \in BOOLEAN, cb \in BOOLEAN : handler(s, cb)
    \/ \E o \in {"ok", "throw"} : Composed(o)
    \/ GenerateFailed
    \/ \E content \in Contents : Generated(content)
    \/ \E o \in DeriveOutcomes : Derived(o)
    \/ \E response \in SignResponses : Signed(response)
    \/ SignFailed

SpecHandler == InitHandler /\ [][NextHandler]_vars

\* the amounts the conversion is applied to
InitAmount ==
    /\ build \in Builds
    /\ settings = NoSettings
    /\ ProviderStart
    /\ prov.accountId = "alice.near"
    /\ HandlerStart
    /\ cfg = NoConfig
    /\ conv \in ConversionInputs

NextAmount == Convert

SpecAmount == InitAmount /\ [][NextAmount]_vars

\* the settings the config resolution reads
InitConfig ==
    /\ build \in Builds
    /\ settings \in {[NoSettings EXCEPT !["NEAR_NETWORK"] = n,
                                        !["BTC_PROVIDER_URL"] = b,
                                        !["EVM_PROVIDER_URL"] = e,
                                        !["BTC_NETWORK"] = w] :
                       n \in {Undefined, Str("mainnet"), Str("testnet")},
                       b \in {Undefined, Str("https://btc.example/api")},
                       e \in {Undefined, Str("https://evm.example/rpc")},
                       w \in {Undefined, Str("mainnet"), Str("testnet")}}
    /\ ProviderStart
    /\ prov.accountId = "alice.near"
    /\ HandlerStart
    /\ cfg = NoConfig
    /\ conv = NoConversion

NextConfig ==
    \/ ResolveBitcoinConfig
    \/ ResolveEvmConfig

SpecConfig == InitConfig /\ [][NextConfig]_vars

----------------------------------------------------------------------------
(* Claims. *)

Range(f) == {f[i] : i \in DOMAIN f}

\* a get has returned a value (not null, not an exception)
Returned == ret.pc = "done" /\ ret.result \notin {Null, Thrown}

\* C1: a successful get that starts less than a TTL after the last address
\* was obtained and cached on its entry point (the instance's get, or
\* walletProvider.get) returns that same address and issues no derivation call.
C1_SecondGetWithinTTLIsCached ==
    (Returned /\ ret.fresh) => (ret.nDerive = 0 /\ ret.result = ret.prevAddr)

\* the handler has ended
Ended == hPc = "done"

\* the sign-and-send call resolved with a response
Responded == hResp \notin {Undefined, Thrown}

\* C2: the handler never raises: however the state composition, the
\* generative call, the credentials, the derivation, sign-and-send and the
\* callback turn out, it ends returning a boolean.
C2_HandlerNeverRaises == Ended => hRet \in {"true", "false"}

\* C3: the callback is never called twice, and an invocation with a callback
\* that ends in a terminal state (invalid intent, dispatch success, dispatch
\* failure) has called it exactly once, with a text and a payload that is
\* the success record (return true) or an {error} record (return false).
C3_ExactlyOneCallback ==
    /\ Len(hCb) <= 1
    /\ (Ended /\ hRet # "raised" /\ hIn.hasCallback) =>
          /\ Len(hCb) = 1
          /\ Len(hCb[1].text) > 0
          /\ \/ /\ hRet = "true"
                /\ DOMAIN hCb[1].content = {"success", "signature", "amount", "recipient"}
                /\ hCb[1].content.success
             \/ /\ hRet = "false"
                /\ DOMAIN hCb[1].content = {"error"}

C3_Witness ==
    /\ Ended /\ hIn.hasCallback /\ hRet = "false" /\ hCalls.sign = 1
    /\ Len(hCb) = 1 /\ DOMAIN hCb[1].content = {"error"}

\* C4: the handler returns true, or passes the callback a payload with
\* success, only on an invocation whose sign-and-send call was made and
\* resolved with success = true and a transaction hash.
C4_SuccessOnlyAfterSignSuccess ==
    (hRet = "true" \/ \E i \in 1 .. Len(hCb) : "success" \in DOMAIN hCb[i].content) =>
        /\ hCalls.sign = 1
        /\ Responded
        /\ hResp.success
        /\ "transactionHash" \in DOMAIN hResp

C4_Witness ==
    /\ hRet = "true" /\ Len(hCb) = 1 /\ hCb[1].content.success
    /\ Responded /\ hResp.success

\* the build's schema rejects the extracted object
FailsSchema ==
    /\ hContent.t = "object"
    /\ ~(IF build = "dist" THEN TransferSchema(hContent) ELSE BtcTransferSchema(hContent))

\* C5: an extracted object that fails the schema (recipient not a string,
\* amount neither string nor number, or in the two-chain build a symbol other
\* than BTC and ETH) is never dispatched: the handler ends without a call of
\* the dispatcher, with a callback whose content.error is set, returning false.
C5_InvalidIntentNotDispatched ==
    (Ended /\ FailsSchema) =>
        /\ hCalls.dispatch = 0
        /\ hRet = "false"
        /\ hIn.hasCallback => (Len(hCb) = 1 /\ "error" \in DOMAIN hCb[1].content)

\* the dispatcher was called with a symbol that is neither BTC nor ETH
UnsupportedDispatched ==
    hCalls.dispatch = 1 /\ build = "dist" /\ hContent.symbol.v \notin {"BTC", "ETH"}

\* C6: dispatch with a symbol other than BTC and ETH fails with the
\* unsupported-symbol error, whose message names the symbol, and the
\* invocation makes no derivation call and no sign-and-send call.
C6_UnsupportedSymbolFails ==
    UnsupportedDispatched =>
        /\ Ended
        /\ hErr = Error(<<"Unsupported symbol to transfer: ", hContent.symbol.v>>)
        /\ hContent.symbol.v \in Range(hErr.message)
        /\ hCalls.derive = 0
        /\ hCalls.sign = 0

C6_Witness == UnsupportedDispatched /\ Ended /\ hContent.symbol = Str("DOGE")

\* the dispatcher was called for a supported asset with NEAR_ADDRESS or
\* NEAR_WALLET_SECRET_KEY absent
DispatchedWithoutCredentials ==
    /\ hCalls.dispatch = 1
    /\ build = "dist" => hContent.symbol.v \in {"BTC", "ETH"}
    /\ \/ ~Truthy(getSetting("NEAR_ADDRESS"))
       \/ ~Truthy(getSetting("NEAR_WALLET_SECRET_KEY"))

\* C7: with NEAR_ADDRESS or NEAR_WALLET_SECRET_KEY absent, dispatch fails
\* with the credentials-not-configured error before any network call: no
\* derivation call, no sign-and-send call, and the handler returns false
\* after a callback with the {error} payload.
C7_MissingCredentialsFailFast ==
    DispatchedWithoutCredentials =>
        /\ Ended
        /\ hErr \in {Error(<<"NEAR wallet credentials not configured">>),
                     Error(<<"BTC wallet credentials not configured">>)}
        /\ hCalls.derive = 0
        /\ hCalls.sign = 0
        /\ hRet = "false"
        /\ hIn.hasCallback => (Len(hCb) = 1 /\ hCb[1].content = [error |-> hErr])

C7_Witness ==
    /\ DispatchedWithoutCredentials /\ Ended /\ hIn.hasCallback
    /\ Truthy(getSetting("NEAR_ADDRESS"))
    /\ getSetting("NEAR_WALLET_SECRET_KEY") = Undefined

\* sign-and-send resolved with {success: false, errorMessage: m}
SignRefused == Responded /\ ~hResp.success

\* C8: when sign-and-send resolves with {success: false, errorMessage: m},
\* the handler returns false after a callback whose text contains m and whose
\* payload's error field is the error the transfer threw, which carries m.
C8_SignerErrorReported ==
    (Ended /\ SignRefused) =>
        /\ hRet = "false"
        /\ hErr.t = "error"
        /\ hResp.errorMessage \in Range(hErr.message)
        /\ hIn.hasCallback =>
              /\ Len(hCb) = 1
              /\ hResp.errorMessage \in Range(hCb[1].text)
              /\ hCb[1].content = [error |-> hErr]

C8_Witness ==
    /\ Ended /\ SignRefused /\ hIn.hasCallback
    /\ hResp.errorMessage = "insufficient funds"
    /\ "insufficient funds" \in Range(hCb[1].text)

\* sign-and-send resolved with {success: true, transactionHash: h}
SignSucceeded == Responded /\ hResp.success

\* C9 as stated: ... the callback gets the payload
\* {success: true, transactionHash: h, amount, recipient} and the handler
\* returns true.
C9_PayloadHasTransactionHash ==
    (Ended /\ SignSucceeded) =>
        /\ hRet = "true"
        /\ hIn.hasCallback =>
              /\ Len(hCb) = 1
              /\ hCb[1].content = [success |-> TRUE,
                                   transactionHash |-> hResp.transactionHash,
                                   amount |-> hContent.amount,
                                   recipient |-> hContent.recipient]

\* C9: for a valid intent, configured credentials and a sign-and-send result
\* {success: true, transactionHash: h}, the handler returns true after one
\* callback whose text ends with h and whose payload is
\* {success: true, signature: h, amount, recipient}, amount and recipient
\* being the extracted values.
C9_SuccessPayload ==
    (Ended /\ SignSucceeded) =>
        /\ hRet = "true"
        /\ hIn.hasCallback =>
              /\ Len(hCb) = 1
              /\ hCb[1].text[Len(hCb[1].text)] = hResp.transactionHash
              /\ hCb[1].content = [success |-> TRUE,
                                   signature |-> hResp.transactionHash,
                                   amount |-> hContent.amount,
                                   recipient |-> hContent.recipient]

C9_Witness ==
    /\ Ended /\ SignSucceeded /\ hIn.hasCallback /\ hRet = "true"
    /\ hContent.amount = Num("1.5")
    /\ hCb[1].content.signature = "tx-2"

\* C10: a get never lets an exception out, and a get whose account is
\* missing (NEAR_ADDRESS) or whose derivation call failed (it threw, or its
\* response was malformed) returns null.
C10_GetReturnsNullOnFailure ==
    ret.pc = "done" => (ret.result # Thrown /\ (ret.failed => ret.result = Null))

C10_Witness == ret.pc = "done" /\ ret.failed /\ ret.nDerive = 2 /\ ret.result = Null


\* derivation calls a get that misses has to make: one per chain kind the
\* build derives
RequiredDerivations == IF build = "src" THEN 1 ELSE 2

\* the value a get derives for accountId
DerivedValue(accountId) ==
    LET btc == deriveAddressAndPublicKey(accountId, getDerivationPath("BTC")).address
        evm == deriveAddressAndPublicKey(accountId, getDerivationPath("EVM")).address
    IN  IF build = "src" THEN btc ELSE [t |-> "object", btc |-> btc, evm |-> evm]

\* the call of slot c returns from an await in this step
ReturnsAfterAwait(c) == calls[c].pc # "idle" /\ calls'[c].pc = "idle"

\* C11: a get that starts more than a TTL after the last address was cached
\* on its entry point does not return a cache entry: it issues a derivation
\* call, never more than one per chain kind, and when the derivation
\* succeeds it has issued exactly one per chain kind and returns the derived
\* value; on the long-lived instance that value is then in the cache with
\* the expiry time now + TTL.
C11_ExpiredEntryIsDerivedAgain ==
    /\ [](ret.stale =>
            /\ ret.hitAge = -1
            /\ ret.nDerive >= 1 /\ ret.nDerive <= RequiredDerivations
            /\ Returned => /\ ret.nDerive = RequiredDerivations
                           /\ ret.result = DerivedValue(ret.acct))
    /\ [][\A c \in Calls :
            (ReturnsAfterAwait(c) /\ calls[c].stale /\ calls[c].target = "prov"
                /\ ret'.result # Null) =>
                    /\ CacheKey(calls[c].acct) \in DOMAIN prov'.cache
                    /\ prov'.cache[CacheKey(calls[c].acct)] =
                           [v |-> ret'.result, t |-> now + TTL]]_vars

C11_Witness ==
    /\ Returned /\ ret.stale /\ ret.target = "prov"
    /\ ret.nDerive = RequiredDerivations
    /\ CacheLive(prov.cache, CacheKey(ret.acct))


\* the cache of the long-lived instance holds no entry, or one entry, under
\* the key of the instance's account
OneEntryPerAccount == DOMAIN prov.cache \subseteq {CacheKey(prov.accountId)}

\* a get has returned an entry of the cache
CacheHit == ret.pc = "done" /\ ret.hitAge # -1

PartialFailure ==
    build = "dist" /\ ret.pc = "done" /\ ret.failed /\ ret.btc # Undefined

\* a get has returned after its BTC derivation failed
BtcFailure ==
    ret.pc = "done" /\ ret.failed /\ ret.nDerive >= 1 /\ ret.btc = Undefined

BaseUnits(amount, decimals) ==
    [notation |-> "fixed", digits |-> Shift(amount.m, decimals - amount.k),
     exponent |-> 0]

Converted == conv.pc = "done"

\* C14: the value computed for sign-and-send is exactly amount * 10^8 for
\* BTC and amount * 10^18 for ETH, written as an integer, for every decimal
\* amount with up to 8 (BTC) or 18 (ETH) fraction digits.
C14_ValueIsExactBaseUnits ==
    Converted => conv.value = BaseUnits(conv.amount, DECIMALS[conv.symbol])

\* the two amounts C14 gives as examples convert exactly: "0.001" BTC gives
\* 100000, "1.5" ETH gives 1500000000000000000
C14_ExamplesConvertExactly ==
    /\ SentValue["0.001"].BTC =
          [notation |-> "fixed", digits |-> Dec(<<1, 0, 0, 0, 0, 0>>, 0).m, exponent |-> 0]
    /\ SentValue["1.5"].ETH = BaseUnits(Dec(<<1, 5>>, 1), 18)
    /\ Len(SentValue["1.5"].ETH.digits) = 19

\* 1000 ETH has been converted: the value is written "1e+21"
C14_ExponentNotation ==
    /\ Converted /\ conv.symbol = "ETH" /\ conv.amount = Dec(<<1, 0, 0, 0>>, 0)
    /\ conv.value = [notation |-> "exponent", digits |-> <<1>>, exponent |-> 21]

\* 1.000000000000000001 ETH has been converted: the value is that of 1 ETH
C14_Drift ==
    /\ Converted /\ conv.symbol = "ETH" /\ conv.amount.k = 18 /\ Len(conv.amount.m) = 19
    /\ conv.value = BaseUnits(Dec(<<1>>, 0), 18)

\* the BTC amounts converted whose integer part has at most 8 digits
\* (the supply is 21000000 BTC) convert exactly
C14_BitcoinSupplyConvertsExactly ==
    (Converted /\ conv.symbol = "BTC" /\ Len(conv.amount.m) - conv.amount.k <= 8) =>
        conv.value = BaseUnits(conv.amount, 8)


Resolved == cfg.pc = "done"

\* the network NEAR_NETWORK names, testnet when it is unset
ResolvedNetwork ==
    IF getSetting("NEAR_NETWORK") = Undefined THEN Str("testnet")
    ELSE getSetting("NEAR_NETWORK")

SignerContractOf(network) ==
    IF network = Str("mainnet") THEN Str("v1.signer") ELSE Str("v1.signer-prod.testnet")

\* the fixed default endpoint of a chain kind on a network
DefaultProviderUrl(chain, network) ==
    IF chain = "EVM" THEN Str("https://sepolia.drpc.org")
    ELSE IF network = Str("mainnet") THEN Str("https://mempool.space/api")
    ELSE Str("https://mempool.space/testnet4/api")

\* the provider URL setting of a chain kind; the single-chain build reads
\* no such setting
ProviderUrlSetting(chain) ==
    IF build = "src" THEN Undefined
    ELSE IF chain = "BTC" THEN getSetting("BTC_PROVIDER_URL")
    ELSE getSetting("EVM_PROVIDER_URL")

\* C15: config resolution has no failure path: whichever of NEAR_NETWORK,
\* BTC_PROVIDER_URL, EVM_PROVIDER_URL, BTC_NETWORK are set, the config
\* resolved for a chain kind has the network id (testnet when unset), a
\* provider URL (the setting, else the fixed default of the chain kind and
\* network), the signer contract of that network and, for Bitcoin, a
\* network field.
C15_ConfigAlwaysResolves ==
    Resolved =>
        /\ cfg.config.nearNetworkId = ResolvedNetwork
        /\ cfg.config.contract = SignerContractOf(ResolvedNetwork)
        /\ cfg.config.providerUrl =
              IF ProviderUrlSetting(cfg.chain) # Undefined
              THEN ProviderUrlSetting(cfg.chain)
              ELSE DefaultProviderUrl(cfg.chain, ResolvedNetwork)
        /\ TypeOf(cfg.config.providerUrl) = "string"
        /\ cfg.chain = "BTC" => TypeOf(cfg.config.network) = "string"

C15_Witness ==
    /\ Resolved /\ cfg.chain = "EVM" /\ settings = NoSettings
    /\ cfg.config.nearNetworkId = Str("testnet")
    /\ cfg.config.providerUrl = Str("https://sepolia.drpc.org")
    /\ cfg.config.contract = Str("v1.signer-prod.testnet")


\* the manual check of the build accepts the content
PassedValidation ==
    /\ hContent \notin {Undefined, Null}
    /\ IF build = "dist" THEN isTransferContent(hContent) ELSE isTransferContent_src(hContent)

\* the address the transfer derives for the configured account
DerivedFrom ==
    deriveAddressAndPublicKey(getSetting("NEAR_ADDRESS").v,
                              CHAIN_SIGNATURES_DERIVATION_PATHS[hChain]).address

\* C16: an invocation goes through its steps in the order compose,
\* extract, validate, derive, sign-and-send, respond, with no retry: each
\* external call is made at most once and only after the one before it,
\* sign-and-send only after validation passed and the derivation gave the
\* address, and the callback only as the invocation ends.
C16_StepsInOrderNoRetry ==
    /\ hCalls.compose <= 1
    /\ hCalls.generate <= hCalls.compose
    /\ hCalls.dispatch <= hCalls.generate
    /\ hCalls.derive <= hCalls.dispatch
    /\ hCalls.sign <= hCalls.derive
    /\ hCalls.dispatch = 1 => PassedValidation
    /\ hCalls.sign = 1 => /\ PassedValidation
                          /\ hReq # Undefined
                          /\ hReq.transaction.from = DerivedFrom
    /\ hPc = "generate" => hCalls.generate = 1 /\ hCalls.dispatch = 0
    /\ hPc = "derive" => hCalls.derive = 1 /\ hCalls.sign = 0
    /\ hPc = "sign" => hCalls.sign = 1
    /\ Len(hCb) > 0 => Ended

C16_Witness ==
    /\ Ended /\ hRet = "true" /\ Len(hCb) = 1
    /\ hCalls = [compose |-> 1, generate |-> 1, dispatch |-> 1, derive |-> 1, sign |-> 1]


\* the symbol of the intent: the extracted one, BTC in the single-chain build
IntentSymbol == IF build = "dist" THEN hContent.symbol ELSE Str("BTC")

\* the sign-and-send call has been made
SignCalled == hCalls.sign = 1 /\ hReq # Undefined

\* C17: a BTC intent is routed to the BTC derivation and
\* signAndSendBTCTransaction with the path "bitcoin-1", an ETH intent to the
\* EVM derivation and signAndSendEVMTransaction with the path "evm-1"; the
\* transaction's from is the address derived on that path for the
\* configured account, its to is the extracted recipient.
C17_RoutedByChainKind ==
    /\ hCalls.derive = 1 =>
          /\ IntentSymbol = Str("BTC") => hChain = "BTC"
          /\ IntentSymbol = Str("ETH") => hChain = "EVM"
          /\ IntentSymbol \in {Str("BTC"), Str("ETH")}
    /\ SignCalled =>
          /\ hReq.transaction.to = hContent.recipient
          /\ hReq.nearAuthentication.accountId = getSetting("NEAR_ADDRESS")
          /\ IntentSymbol = Str("BTC") =>
                /\ hReq.fn = "signAndSendBTCTransaction"
                /\ hReq.derivationPath = "bitcoin-1"
                /\ hReq.transaction.from =
                      deriveAddressAndPublicKey(getSetting("NEAR_ADDRESS").v, "bitcoin-1").address
          /\ IntentSymbol = Str("ETH") =>
                /\ hReq.fn = "signAndSendEVMTransaction"
                /\ hReq.derivationPath = "evm-1"
                /\ hReq.transaction.from =
                      deriveAddressAndPublicKey(getSetting("NEAR_ADDRESS").v, "evm-1").address

C17_Witness ==
    /\ SignCalled /\ build = "dist" /\ IntentSymbol = Str("ETH")
    /\ hReq.fn = "signAndSendEVMTransaction" /\ hReq.derivationPath = "evm-1"


\* a get on the long-lived instance has returned and no derivation it made
\* failed
ReturnedOnInstance == ret.pc = "done" /\ ret.target = "prov" /\ ~ret.failed

\* a get on the long-lived instance has missed and awaits a derivation
MissInFlight(c) == calls[c].target = "prov" /\ calls[c].pc \in {"awaitBtc", "awaitEvm"}

\* C18: gets on one provider instance that interleave and miss each make
\* their own derivation calls; the cache holds at most the one entry of
\* the account, that entry is the complete derived value, and every get
\* whose derivations succeed returns the complete derived value, never a
\* partly written one.
C18_ConcurrentMissesAreHarmless ==
    /\ OneEntryPerAccount
    /\ \A k \in DOMAIN prov.cache : prov.cache[k].v = DerivedValue(prov.accountId)
    /\ ReturnedOnInstance =>
          /\ ret.result # Null
          /\ ret.result = DerivedValue(ret.acct)
    /\ \A c \in Calls : MissInFlight(c) => calls[c].nDerive >= 1

\* one of two gets that both missed has returned and written the entry
\* while the other still awaits its own derivation call
C18_Witness ==
    /\ ReturnedOnInstance /\ ret.nDerive = RequiredDerivations
    /\ CacheLive(prov.cache, CacheKey(ret.acct))
    /\ \E c \in Calls : MissInFlight(c) /\ calls[c].acct = ret.acct

\* C19: a failed derivation leaves the cache unchanged: the step in which
\* a get returns null because a derivation call failed changes neither the
\* instance nor its cache, no null or undefined is ever an entry's value,
\* and a get that makes no derivation call returns an address, never a
\* cached failure.
C19_FailureLeavesCacheUnchanged ==
    /\ [](\A k \in DOMAIN prov.cache : prov.cache[k].v \notin {Null, Undefined})
    /\ []((ret.pc = "done" /\ ret.target = "prov" /\ ret.nDerive = 0) => Returned)
    /\ [][\A c \in Calls :
            (ReturnsAfterAwait(c) /\ ret'.failed) => prov' = prov]_vars

C19_Witness ==
    /\ ret.pc = "done" /\ ret.target = "prov" /\ ret.failed /\ ret.nDerive >= 1
    /\ ret.result = Null
    /\ prov.cache = EmptyCache


\* no Bitcoin override is set
NoBtcOverride ==
    getSetting("BTC_PROVIDER_URL") = Undefined /\ getSetting("BTC_NETWORK") = Undefined

\* C20: with no Bitcoin override set, the resolved Bitcoin config is of one
\* network, that of NEAR_NETWORK (testnet when unset): its network field,
\* its provider URL and its signer contract are all mainnet values or all
\* testnet values.
C20_BitcoinConfigOfOneNetwork ==
    (Resolved /\ cfg.chain = "BTC" /\ NoBtcOverride) =>
        /\ cfg.config.nearNetworkId = ResolvedNetwork
        /\ cfg.config.network = ResolvedNetwork
        /\ cfg.config.providerUrl = DefaultProviderUrl("BTC", ResolvedNetwork)
        /\ cfg.config.contract = SignerContractOf(ResolvedNetwork)

\* the two-chain build has resolved the Bitcoin config for NEAR_NETWORK =
\* mainnet and nothing else set: the mainnet endpoint and contract, with
\* the network field testnet
C20_MixedConfig ==
    /\ Resolved /\ cfg.chain = "BTC" /\ NoBtcOverride /\ build = "dist"
    /\ getSetting("NEAR_NETWORK") = Str("mainnet")
    /\ cfg.config.network = Str("testnet")
    /\ cfg.config.providerUrl = Str("https://mempool.space/api")
    /\ cfg.config.contract = Str("v1.signer")

\* the single-chain build resolves a Bitcoin config of one network
C20_SingleChainBuildConsistent ==
    build = "src" => C20_BitcoinConfigOfOneNetwork

====
